---- MODULE Spec2Model ----
(***************************************************************************)
(* PaliGemma Vision QA (src/PaliGemma.py): a Streamlit script.  Streamlit  *)
(* re-executes the whole script, top to bottom, after every widget         *)
(* interaction; a button returns True only in the run its click caused.    *)
(* One action of this model = one user interaction followed by the whole   *)
(* script run it triggers.  The state holds what survives between runs     *)
(* (st.session_state, the st.cache_resource cache, the widget values) and  *)
(* what the last run produced (its local `image`, what it displayed, the   *)
(* inference call it made, the exception that ended it).                   *)
(***************************************************************************)
EXTENDS Integers, Sequences, FiniteSets, TLC

\* ---------------------------------------------------------------- bounds
MaxQuestionLen == 2      \* longest question typed into the text area
MaxLoadFailures == 2     \* failed executions of the load_model body
MaxLatency == 2          \* largest measured generate() time, in clock ticks

\* ---------------------------------------------------------------- values
None == [tag |-> "None"]

\* the options of st.radio (line 120), in order
OptUpload == "upload_local_file"
OptURL == "input_image_url"
OptCamera == "take_photo"
RadioOptions == {OptUpload, OptURL, OptCamera}

\* the literal the third branch compares image_source with (line 142):
\* the option text prefixed with a camera emoji
CameraBranchLiteral == "camera_emoji take_photo"

\* files the user can hand to st.file_uploader: the container format decodes
\* to some PIL mode, or the bytes are not an image at all
Files == {[tag |-> "file", name |-> "a.jpg", mode |-> "RGB"],
          [tag |-> "file", name |-> "b.png", mode |-> "RGBA"],
          [tag |-> "file", name |-> "c.png", mode |-> "undecodable"]}

\* what requests.get(url, stream=True, timeout=10) can end in
Statuses == {200, 300, 404, 500}
Bodies == {[tag |-> "file", name |-> "body.png", mode |-> "P"],
           [tag |-> "file", name |-> "body.html", mode |-> "undecodable"]}
NoBody == [tag |-> "file", name |-> "", mode |-> "undecodable"]
FetchOutcomes ==
    {[kind |-> k, status |-> 0, body |-> NoBody] : k \in {"timeout", "connection_error"}}
    \cup {[kind |-> "response", status |-> s, body |-> b] : s \in Statuses, b \in Bodies}

\* how one execution of the load_model body can end
LoadOutcomes == {"ok", "model_fail", "processor_fail"}

\* how one call of inference() can go: the step that raises (or none) and the
\* time generate() took
InferenceSteps == <<"encode", "to_device", "to_dtype", "generate", "decode">>
InferOutcomes == {[fail |-> f, elapsed |-> t] :
                    f \in {"none"} \cup {InferenceSteps[i] : i \in 1..5},
                    t \in 0..MaxLatency}

\* the characters of a question: a blank and a letter
Chars == {" ", "a"}
Questions == UNION {[1..n -> Chars] : n \in 0..MaxQuestionLen}
URLs == {"", "http://host/img"}

\* ---------------------------------------------------------------- helpers
\* torch.device("cuda" if torch.cuda.is_available() else "cpu")
torch_device(cuda) == IF cuda THEN "cuda" ELSE "cpu"

\* lines 30-35: every key is set only if it is not in st.session_state yet
session_state_init(ss, cuda) ==
    [k \in {"model", "processor", "device"} |->
        IF k \in DOMAIN ss THEN ss[k]
        ELSE IF k = "device" THEN torch_device(cuda) ELSE None]

\* the body of load_model (lines 38-51); n numbers the objects it creates; the
\* returned tuple (model, processor, device) is a record with these fields
load_model_body(cuda, n, outcome) ==
    IF outcome = "ok"
    THEN [raised |-> FALSE,
          value |-> [model |-> [tag |-> "model", id |-> n],
                     processor |-> [tag |-> "processor", id |-> n],
                     device |-> torch_device(cuda)]]
    ELSE [raised |-> TRUE, value |-> None]

\* a mutant of load_model: the cache is never consulted
load_model_nocache(cache, cuda, n, outcome) ==
    LET r == load_model_body(cuda, n, outcome)
    IN [raised |-> r.raised, value |-> r.value,
        cache |-> IF r.raised THEN cache ELSE r.value, ran |-> TRUE]

\* load_model as decorated by @st.cache_resource (line 37): a cached value is
\* returned without running the body; only a returned value is cached
load_model(cache, cuda, n, outcome) ==
    IF cache # None
    THEN [raised |-> FALSE, value |-> cache, cache |-> cache, ran |-> FALSE]
    ELSE LET r == load_model_body(cuda, n, outcome)
         IN [raised |-> r.raised, value |-> r.value,
             cache |-> IF r.raised THEN cache ELSE r.value, ran |-> TRUE]

\* Image.open(f).convert("RGB") (lines 88, 132, 145)
open_convert_rgb(f) ==
    IF f.mode = "undecodable"
    THEN [raised |-> TRUE, image |-> None]
    ELSE [raised |-> FALSE, image |-> [tag |-> "image", of |-> f.name, mode |-> "RGB"]]

\* response.raise_for_status() (line 87): HTTPError for 4xx and 5xx
raise_for_status(status) == status >= 400 /\ status < 600

\* load_image_from_url (lines 83-92)
load_image_from_url(url, fetch) ==
    LET raised == \/ fetch.kind # "response"
                  \/ raise_for_status(fetch.status)
                  \/ open_convert_rgb(fetch.body).raised
    IN IF raised
       THEN [image |-> None, shown |-> {"error_url_load"}]
       ELSE [image |-> open_convert_rgb(fetch.body).image, shown |-> {}]

\* str.strip() (line 166)
RECURSIVE lstrip(_)
lstrip(s) == IF s # <<>> /\ Head(s) = " " THEN lstrip(Tail(s)) ELSE s
RECURSIVE rstrip(_)
rstrip(s) == IF s # <<>> /\ s[Len(s)] = " " THEN rstrip(SubSeq(s, 1, Len(s) - 1)) ELSE s
strip(s) == rstrip(lstrip(s))

\* a mutant of inference: a raise of the decode step is not caught
inference_propagates(model, processor, image, input_text, device, outcome) ==
    IF outcome.fail = "none"
    THEN [raised |-> FALSE,
          result |-> [tag |-> "str", kind |-> "answer", on |-> image],
          inference_time |-> [tag |-> "float", v |-> outcome.elapsed]]
    ELSE [raised |-> outcome.fail = "decode",
          result |-> [tag |-> "str", kind |-> "error", on |-> outcome.fail],
          inference_time |-> None]

\* inference (lines 54-80): every step runs inside try; `except Exception`
\* turns a raise into (message, None).  A missing processor or model makes
\* the step that uses it raise.
inference(model, processor, image, input_text, device, outcome) ==
    LET fail == IF processor = None THEN "encode"
                ELSE IF model = None /\ outcome.fail \notin {"encode", "to_device"}
                     THEN "to_dtype"
                     ELSE outcome.fail
    IN IF fail = "none"
       THEN [raised |-> FALSE,
             result |-> [tag |-> "str", kind |-> "answer", on |-> image],
             inference_time |-> [tag |-> "float", v |-> outcome.elapsed]]
       ELSE [raised |-> FALSE,
             result |-> [tag |-> "str", kind |-> "error", on |-> fail],
             inference_time |-> None]

\* Python truth value of inference_time (line 191): None and 0.0 are false
truthy_time(t) == t # None /\ t.v # 0


\* a mutant of Sidebar: the model is stored before the processor is loaded
Sidebar_partial(ss, pressed, lm) ==
    LET stored == IF pressed /\ ~lm.raised
                  THEN [model |-> lm.value.model, processor |-> lm.value.processor,
                        device |-> lm.value.device]
                  ELSE IF pressed
                  THEN [ss EXCEPT !.model = [tag |-> "model", id |-> 0]]
                  ELSE ss
    IN [session |-> stored,
        raised |-> pressed /\ lm.raised,
        widgets |-> {"load_button"},
        shown |-> {"info_device"}]

\* the sidebar (lines 100-110): lm is what load_model() did when the button
\* was pressed.  The tuple assignment of line 106 happens only after
\* load_model() returned.
Sidebar(ss, pressed, lm) ==
    LET stored == IF pressed /\ ~lm.raised
                  THEN [model |-> lm.value.model, processor |-> lm.value.processor,
                        device |-> lm.value.device]
                  ELSE ss
    IN [session |-> stored,
        raised |-> pressed /\ lm.raised,
        widgets |-> {"load_button"},
        shown |-> {"info_device"}
                  \cup (IF pressed /\ ~lm.raised THEN {"success_model_loaded"} ELSE {})
                  \cup (IF ~(pressed /\ lm.raised) /\ stored.model = None
                        THEN {"warning_load_model_first"} ELSE {})]

\* the image column (lines 115-148)
ImageColumn(image_source, uploaded_file, url, url_pressed, fetch, picture) ==
    IF image_source = OptUpload
    THEN LET r == IF uploaded_file # None THEN open_convert_rgb(uploaded_file)
                  ELSE [raised |-> FALSE, image |-> None]
         IN [image |-> r.image, raised |-> r.raised,
             widgets |-> {"radio", "file_uploader"},
             shown |-> IF r.image # None THEN {"image"} ELSE {}]
    ELSE IF image_source = OptURL
    THEN LET r == IF url # "" /\ url_pressed THEN load_image_from_url(url, fetch)
                  ELSE [image |-> None, shown |-> {}]
         IN [image |-> r.image, raised |-> FALSE,
             widgets |-> {"radio", "text_input"}
                         \cup (IF url # "" THEN {"url_button"} ELSE {}),
             shown |-> r.shown \cup (IF r.image # None THEN {"image"} ELSE {})]
    ELSE IF image_source = CameraBranchLiteral
    THEN LET r == IF picture # None THEN open_convert_rgb(picture)
                  ELSE [raised |-> FALSE, image |-> None]
         IN [image |-> r.image, raised |-> r.raised,
             widgets |-> {"radio", "camera_input"},
             shown |-> IF r.image # None THEN {"image"} ELSE {}]
    ELSE [image |-> None, raised |-> FALSE, widgets |-> {"radio"}, shown |-> {}]

\* a mutant of AskGate: the question is tested without strip()
AskGate_nostrip(model, image, input_text) ==
    IF model = None THEN "error_load_model"
    ELSE IF image = None THEN "error_select_image"
    ELSE IF input_text = <<>> THEN "error_enter_question"
    ELSE "infer"

\* the validation chain of the ask button (lines 162-168)
AskGate(model, image, input_text) ==
    IF model = None THEN "error_load_model"
    ELSE IF image = None THEN "error_select_image"
    ELSE IF strip(input_text) = <<>> THEN "error_enter_question"
    ELSE "infer"

\* a mutant of AskColumn: inference() gets a device computed on the spot
AskColumn_cpu(ss, image, input_text, ask_pressed, outcome) ==
    LET gate == AskGate(ss.model, image, input_text)
        args == [model |-> ss.model, processor |-> ss.processor, image |-> image,
                 input_text |-> input_text, device |-> "cpu"]
        r == inference(args.model, args.processor, args.image, args.input_text,
                       args.device, outcome)
    IN IF ~ask_pressed \/ gate # "infer"
       THEN [calls |-> <<>>, returned |-> None, raised |-> FALSE,
             shown |-> IF ask_pressed THEN {gate} ELSE {},
             widgets |-> {"text_area", "ask_button"}]
       ELSE [calls |-> <<args>>,
             returned |-> [result |-> r.result, inference_time |-> r.inference_time],
             raised |-> FALSE,
             shown |-> {"result_box", "metric_model_size", "result_code"},
             widgets |-> {"text_area", "ask_button"}]

\* the question column (lines 150-195)
AskColumn(ss, image, input_text, ask_pressed, outcome) ==
    LET gate == AskGate(ss.model, image, input_text)
        args == [model |-> ss.model, processor |-> ss.processor, image |-> image,
                 input_text |-> input_text, device |-> ss.device]
        r == inference(args.model, args.processor, args.image, args.input_text,
                       args.device, outcome)
    IN IF ~ask_pressed
       THEN [calls |-> <<>>, returned |-> None, raised |-> FALSE, shown |-> {},
             widgets |-> {"text_area", "ask_button"}]
       ELSE IF gate # "infer"
       THEN [calls |-> <<>>, returned |-> None, raised |-> FALSE, shown |-> {gate},
             widgets |-> {"text_area", "ask_button"}]
       ELSE IF r.raised
       THEN [calls |-> <<args>>, returned |-> None, raised |-> TRUE, shown |-> {},
             widgets |-> {"text_area", "ask_button"}]
       ELSE [calls |-> <<args>>,
             returned |-> [result |-> r.result, inference_time |-> r.inference_time],
             raised |-> FALSE,
             shown |-> {"result_box", "metric_model_size", "result_code"}
                       \cup (IF truthy_time(r.inference_time)
                             THEN {"metric_inference_time"} ELSE {}),
             widgets |-> {"text_area", "ask_button"}]

\* one script run (lines 30-35 and main, lines 95-195).  w: the widget values,
\* press: the button clicked (if any), env: what the outside world does in
\* this run.  An uncaught exception ends the run where it is raised.
main(ss_in, cache, runs, cuda, w, press, env) ==
    LET ss0 == session_state_init(ss_in, cuda)
        lm == IF press = "load_button"
              THEN load_model(cache, cuda, runs + 1, env.load)
              ELSE [raised |-> FALSE, value |-> None, cache |-> cache, ran |-> FALSE]
        side == Sidebar(ss0, press = "load_button", lm)
        col1 == ImageColumn(w.image_source, w.uploaded_file, w.url,
                            press = "url_button", env.fetch, w.picture)
        col2 == AskColumn(side.session, col1.image, w.input_text,
                          press = "ask_button", env.infer)
        base == [session |-> side.session, cache |-> lm.cache,
                 runs |-> IF lm.ran THEN runs + 1 ELSE runs]
    IN IF side.raised
       THEN base @@ [escaped |-> "load_model", image |-> None, calls |-> <<>>,
                     returned |-> None, shown |-> side.shown,
                     widgets |-> side.widgets]
       ELSE IF col1.raised
       THEN base @@ [escaped |-> "image_open", image |-> None, calls |-> <<>>,
                     returned |-> None, shown |-> side.shown \cup col1.shown,
                     widgets |-> side.widgets \cup col1.widgets]
       ELSE base @@ [escaped |-> IF col2.raised THEN "inference" ELSE "none",
                     image |-> col1.image, calls |-> col2.calls,
                     returned |-> col2.returned,
                     shown |-> side.shown \cup col1.shown \cup col2.shown,
                     widgets |-> side.widgets \cup col1.widgets \cup col2.widgets]

\* ---------------------------------------------------------------- state
VARIABLES
    cuda_available,   \* torch.cuda.is_available(), fixed for the process
    resource_cache,   \* what @st.cache_resource holds for load_model
    load_body_runs,   \* executions of the load_model body in this process
    session,          \* st.session_state: model, processor, device
    image_source,     \* value of the radio
    uploaded_file,    \* value of the file uploader
    url,              \* value of the URL text input
    picture,          \* value of the camera input
    input_text,       \* value of the question text area
    image,            \* the local `image` of the last run
    calls,            \* the inference() calls of the last run, with arguments
    returned,         \* what inference() returned in the last run
    shown,            \* messages and elements the last run displayed
    widgets,          \* widgets the last run rendered
    escaped,          \* the uncaught exception that ended the last run
    last,             \* what the outside world did in the last run
    lastAction        \* the interaction that caused the last run

vars == <<cuda_available, resource_cache, load_body_runs, session, image_source,
          uploaded_file, url, picture, input_text, image, calls, returned,
          shown, widgets, escaped, last, lastAction>>

\* widget values of a fresh browser session (defaults of lines 118-157)
DefaultWidgets == [image_source |-> OptUpload, uploaded_file |-> None, url |-> "",
                   picture |-> None, input_text |-> <<>>]

CurrentWidgets == [image_source |-> image_source, uploaded_file |-> uploaded_file,
                   url |-> url, picture |-> picture, input_text |-> input_text]

QuietEnv == [load |-> "ok",
             fetch |-> [kind |-> "timeout", status |-> 0, body |-> NoBody],
             infer |-> [fail |-> "none", elapsed |-> 0]]

\* Streamlit drops the value of a widget that a completed run did not render;
\* a run ended by an exception keeps every value
KeptWidgets(w, r) ==
    IF r.escaped # "none" THEN w
    ELSE [w EXCEPT
            !.uploaded_file = IF "file_uploader" \in r.widgets THEN @ ELSE None,
            !.url = IF "text_input" \in r.widgets THEN @ ELSE "",
            !.picture = IF "camera_input" \in r.widgets THEN @ ELSE None,
            !.input_text = IF "text_area" \in r.widgets THEN @ ELSE <<>>]

\* the state a script run leaves behind
RunResult(name, ss_in, cache, runs, cuda, w, press, env) ==
    LET r == main(ss_in, cache, runs, cuda, w, press, env)
    IN [r |-> r,
        w |-> KeptWidgets(w, r),
        last |-> [load |-> IF r.runs # runs THEN env.load ELSE "not_run",
                  fetch |-> IF press = "url_button" THEN env.fetch ELSE None,
                  infer |-> IF r.calls # <<>> THEN env.infer ELSE None],
        name |-> name]

\* the first run of the first browser session of the process
Init ==
    /\ cuda_available \in BOOLEAN
    /\ \E n \in {RunResult("open_page", <<>>, None, 0, cuda_available,
                          DefaultWidgets, "none", QuietEnv)} :
          /\ resource_cache = n.r.cache
          /\ load_body_runs = n.r.runs
          /\ session = n.r.session
          /\ image_source = n.w.image_source
          /\ uploaded_file = n.w.uploaded_file
          /\ url = n.w.url
          /\ picture = n.w.picture
          /\ input_text = n.w.input_text
          /\ image = n.r.image
          /\ calls = n.r.calls
          /\ returned = n.r.returned
          /\ shown = n.r.shown
          /\ widgets = n.r.widgets
          /\ escaped = n.r.escaped
          /\ last = n.last
          /\ lastAction = n.name

\* a rerun of the script in the current browser session
Rerun(name, w, press, env) ==
    \E n \in {RunResult(name, session, resource_cache, load_body_runs,
                       cuda_available, w, press, env)} :
       /\ resource_cache' = n.r.cache
       /\ load_body_runs' = n.r.runs
       /\ session' = n.r.session
       /\ image_source' = n.w.image_source
       /\ uploaded_file' = n.w.uploaded_file
       /\ url' = n.w.url
       /\ picture' = n.w.picture
       /\ input_text' = n.w.input_text
       /\ image' = n.r.image
       /\ calls' = n.r.calls
       /\ returned' = n.r.returned
       /\ shown' = n.r.shown
       /\ widgets' = n.r.widgets
       /\ escaped' = n.r.escaped
       /\ last' = n.last
       /\ lastAction' = n.name
       /\ UNCHANGED cuda_available

\* ---------------------------------------------------------------- actions
\* the user clicks the load-model button (line 105)
LoadModel ==
    /\ "load_button" \in widgets
    /\ \E o \in LoadOutcomes :
          /\ o # "ok" => resource_cache = None /\ load_body_runs < MaxLoadFailures
          /\ Rerun("load_model", CurrentWidgets, "load_button",
                   [QuietEnv EXCEPT !.load = o])

\* the user picks another option of the radio (line 118)
SelectSource ==
    /\ "radio" \in widgets
    /\ \E s \in RadioOptions \ {image_source} :
          Rerun("select_source", [CurrentWidgets EXCEPT !.image_source = s],
                "none", QuietEnv)

\* the user puts a file into the uploader (line 127)
Upload ==
    /\ "file_uploader" \in widgets
    /\ \E f \in Files \ {uploaded_file} :
          Rerun("upload", [CurrentWidgets EXCEPT !.uploaded_file = f],
                "none", QuietEnv)

\* the user removes the file from the uploader
RemoveFile ==
    /\ "file_uploader" \in widgets
    /\ uploaded_file # None
    /\ Rerun("remove_file", [CurrentWidgets EXCEPT !.uploaded_file = None],
             "none", QuietEnv)

\* the user edits the URL field (line 135)
TypeURL ==
    /\ "text_input" \in widgets
    /\ \E u \in URLs \ {url} :
          Rerun("type_url", [CurrentWidgets EXCEPT !.url = u], "none", QuietEnv)

\* the user clicks the load-image button (line 139)
LoadURLImage ==
    /\ "url_button" \in widgets
    /\ \E f \in FetchOutcomes :
          Rerun("load_url_image", CurrentWidgets, "url_button",
                [QuietEnv EXCEPT !.fetch = f])

\* the user edits the question (line 153)
TypeQuestion ==
    /\ "text_area" \in widgets
    /\ \E q \in Questions \ {input_text} :
          Rerun("type_question", [CurrentWidgets EXCEPT !.input_text = q],
                "none", QuietEnv)

\* the user clicks the ask button (line 161)
Ask ==
    /\ "ask_button" \in widgets
    /\ \E o \in InferOutcomes :
          Rerun("ask", CurrentWidgets, "ask_button", [QuietEnv EXCEPT !.infer = o])

\* the user reloads the page: a new browser session of the same process, with
\* an empty st.session_state and default widget values; the resource cache
\* belongs to the process and stays
NewSession ==
    \E n \in {RunResult("open_page", <<>>, resource_cache, load_body_runs,
                       cuda_available, DefaultWidgets, "none", QuietEnv)} :
       /\ lastAction # "open_page"
       /\ resource_cache' = n.r.cache
       /\ load_body_runs' = n.r.runs
       /\ session' = n.r.session
       /\ image_source' = n.w.image_source
       /\ uploaded_file' = n.w.uploaded_file
       /\ url' = n.w.url
       /\ picture' = n.w.picture
       /\ input_text' = n.w.input_text
       /\ image' = n.r.image
       /\ calls' = n.r.calls
       /\ returned' = n.r.returned
       /\ shown' = n.r.shown
       /\ widgets' = n.r.widgets
       /\ escaped' = n.r.escaped
       /\ last' = n.last
       /\ lastAction' = n.name
       /\ UNCHANGED cuda_available

Next ==
    \/ LoadModel
    \/ SelectSource
    \/ Upload
    \/ RemoveFile
    \/ TypeURL
    \/ LoadURLImage
    \/ TypeQuestion
    \/ Ask
    \/ NewSession

Spec == Init /\ [][Next]_vars

TypeOK ==
    /\ image_source \in RadioOptions
    /\ uploaded_file \in Files \cup {None}
    /\ url \in URLs
    /\ input_text \in Questions
    /\ Len(calls) <= 1
    /\ escaped \in {"none", "load_model", "image_open", "inference"}

\* ---------------------------------------------------------------- claims
LoadedSession(c) == [model |-> c.model, processor |-> c.processor, device |-> c.device]

ValidationErrors == {"error_load_model", "error_select_image", "error_enter_question"}

\* C1: inference() is called only with a loaded model, an image and a question
\* that is non-empty after trimming; an ask that lacks one of them makes no
\* pipeline call and shows a validation error.
C1_AskGated ==
    /\ calls # <<>> =>
          /\ session.model # None
          /\ image # None
          /\ strip(input_text) # <<>>
    /\ ( /\ lastAction = "ask"
         /\ (session.model = None \/ image = None \/ strip(input_text) = <<>>) ) =>
          /\ calls = <<>>
          /\ shown \cap ValidationErrors # {}
          /\ "result_box" \notin shown

C1_Witness ==
    /\ lastAction = "ask"
    /\ session.model # None
    /\ image # None
    /\ input_text # <<>>
    /\ strip(input_text) = <<>>
    /\ "error_enter_question" \in shown

\* C2: a call of inference() in which a step raises does not propagate the
\* exception: it returns (error message, None); a call in which no step raises
\* returns (answer, a number).  Latency is None exactly in the error outcome.
C2_InferenceCatches ==
    calls # <<>> =>
        /\ escaped = "none"
        /\ returned # None
        /\ IF last.infer.fail # "none"
           THEN /\ returned.result.kind = "error"
                /\ returned.inference_time = None
           ELSE /\ returned.result.kind = "answer"
                /\ returned.inference_time # None
                /\ returned.inference_time.v = last.infer.elapsed

C2_Witness ==
    /\ calls # <<>>
    /\ last.infer.fail = "decode"
    /\ returned # None
    /\ returned.inference_time = None

\* C3: a load-model action whose load_model() fails ends in a visible
\* exception and leaves model, processor and device as they were; a load-model
\* action stores either nothing or the whole triple load_model() returned.
C3_FailedLoadKeepsSession ==
    [][lastAction' = "load_model" =>
          IF last'.load \in {"model_fail", "processor_fail"}
          THEN /\ escaped' = "load_model"
               /\ session' = session
               /\ resource_cache' = resource_cache
          ELSE /\ escaped' # "load_model"
               /\ resource_cache' # None
               /\ session' = LoadedSession(resource_cache')]_vars

C3_Witness ==
    /\ lastAction = "load_model"
    /\ last.load = "processor_fail"
    /\ escaped = "load_model"
    /\ load_body_runs = 2

\* C4: once a load has succeeded, the load_model body never runs again in the
\* process, and a further load-model action stores the same session again.
C4_LoadIdempotent ==
    [][/\ resource_cache # None =>
              /\ load_body_runs' = load_body_runs
              /\ resource_cache' = resource_cache
       /\ (session.model # None /\ lastAction' = "load_model") =>
              /\ session' = session
              /\ escaped' # "load_model"]_vars

C4_Witness ==
    /\ lastAction = "load_model"
    /\ last.load = "not_run"
    /\ session.model # None
    /\ load_body_runs = 1

\* C5: a URL load whose fetch times out, cannot connect, answers with a
\* non-2xx status or carries an undecodable body yields no image, shows the
\* URL error and raises nothing; an ask that follows it calls no pipeline.
FetchFailed(f) ==
    \/ f.kind # "response"
    \/ f.status < 200
    \/ f.status > 299
    \/ f.body.mode = "undecodable"

C5_FailedFetchNoImage ==
    /\ (lastAction = "load_url_image" /\ FetchFailed(last.fetch)) =>
          /\ image = None
          /\ "error_url_load" \in shown
          /\ escaped = "none"
    /\ (lastAction = "ask" /\ image = None) =>
          /\ calls = <<>>
          /\ shown \cap ValidationErrors # {}

\* C6: an uploaded file (or camera capture) whose bytes are not an image is
\* reported as a message, leaves image None, and no exception escapes the run.
C6_DecodeFailureRecovered ==
    (uploaded_file # None /\ open_convert_rgb(uploaded_file).raised) =>
        /\ escaped = "none"
        /\ image = None

\* C7: every source the selector offers produces an image: with the camera
\* option selected the run offers the camera capture, and a captured picture
\* becomes image, as an uploaded file does under the upload option.
C7_CameraProducesImage ==
    /\ (image_source = OptUpload /\ escaped = "none") =>
          /\ "file_uploader" \in widgets
          /\ uploaded_file # None => image = open_convert_rgb(uploaded_file).image
    /\ (image_source = OptCamera /\ escaped = "none") =>
          /\ "camera_input" \in widgets
          /\ picture # None => image = open_convert_rgb(picture).image

\* C8: after an image was loaded through the URL source, a following ask with
\* a loaded model and a non-empty question calls inference() exactly once with
\* that image and is not rejected for a missing image.
C8_AskUsesURLImage ==
    [][( /\ lastAction = "load_url_image"
         /\ image # None
         /\ session.model # None
         /\ strip(input_text) # <<>>
         /\ lastAction' = "ask" ) =>
            /\ Len(calls') = 1
            /\ calls'[1].image = image
            /\ "error_select_image" \notin shown']_vars

\* C9: after an ask that reached the pipeline, the latency metric is shown if
\* and only if inference succeeded, for every latency >= 0.
C9_LatencyShownIffSuccess ==
    (lastAction = "ask" /\ calls # <<>>) =>
        ("metric_inference_time" \in shown <=> returned.inference_time # None)

\* C10: only the load-model action writes model, processor and device (a new
\* browser session starts from its own fresh st.session_state); every other
\* action leaves them unchanged, and inference() receives the stored values.
C10_SessionFrame ==
    [][/\ lastAction' \notin {"load_model", "open_page"} => session' = session
       /\ calls' # <<>> =>
              /\ calls'[1].model = session'.model
              /\ calls'[1].processor = session'.processor
              /\ calls'[1].device = session'.device]_vars

C10_Witness ==
    /\ lastAction = "ask"
    /\ calls # <<>>
    /\ session.device = "cuda"
    /\ returned.inference_time = None
====
